---- MODULE Spec2Model ----
(***************************************************************************)
(* Model of the personality-profiler export parsers                        *)
(* (parse_twitter.py, parse_linkedin.py, parse_instagram.py).              *)
(*                                                                         *)
(* Text is a sequence of Unicode code points.  Python's None is NoneText   *)
(* for text values and NoneTs for timestamps.  An ISO-8601 timestamp       *)
(* string is the sequence of its zero-padded numeric fields                *)
(* <<year, month, day, hour, minute, second>> followed by its suffix       *)
(* (nothing, <<90>> for "Z", or <<sign, hh, mm>> for a UTC offset), so     *)
(* that string comparison is lexicographic comparison of the sequence.     *)
(***************************************************************************)
EXTENDS Integers, Sequences, FiniteSets, TLC

\* enc, dt: the inputs and outcomes of the field normalizers applied alone.
\* platform: which script runs.  pc: the call main() makes next.
\* probe: what the extractor that ran last found on disk (its candidate
\* paths that exist, the one it read).  raw: the local raw_tweets /
\* raw_shares / raw_posts of the primary-content extractor, kept until the
\* next extractor is called.
\* absent: the locals of main() whose extractor found none of its candidate
\* paths.  comps: the locals of main() holding the extractors' return values.
\* result: the result dict.  output: the output file.  err: the uncaught
\* exception that ended the run.
VARIABLES enc, dt, rd, platform, pc, probe, raw, absent, comps, result, output, err

vars == <<enc, dt, rd, platform, pc, probe, raw, absent, comps, result, output, err>>
mainVars == <<platform, pc, probe, raw, absent, comps, result, output, err>>

(***************************************************************************)
(* Bounds                                                                  *)
(***************************************************************************)
MaxTextLen == 4
MaxRecs == 2
MaxAux == 1

(***************************************************************************)
(* Generic helpers                                                         *)
(***************************************************************************)
NoneText == <<-1>>
NoneTs == <<>>

SeqsUpTo(S, n) == UNION {[1..k -> S] : k \in 0..n}

\* dict.get(key, default)
Get(d, key, default) == IF key \in DOMAIN d THEN d[key] ELSE default

\* str.isspace() on one code point
IsSpace(c) ==
  \/ c \in 9..13
  \/ c \in 28..32
  \/ c \in {133, 160, 5760, 8232, 8233, 8239, 8287, 12288}
  \/ c \in 8192..8202

\* `not s.strip()` for a str s
IsBlank(s) == \A i \in 1..Len(s) : IsSpace(s[i])

\* s.strip()
RECURSIVE LStrip(_)
LStrip(s) == IF s # <<>> /\ IsSpace(Head(s)) THEN LStrip(Tail(s)) ELSE s
RECURSIVE RStrip(_)
RStrip(s) ==
  IF s # <<>> /\ IsSpace(s[Len(s)]) THEN RStrip(SubSeq(s, 1, Len(s) - 1)) ELSE s
Strip(s) == RStrip(LStrip(s))

(***************************************************************************)
(* parse_instagram.py: fix_encoding                                        *)
(***************************************************************************)
\* text.encode('latin1') succeeds iff every code point is below 256;
\* the bytes are then the code points themselves.
Latin1Encodable(text) == \A i \in 1..Len(text) : text[i] \in 0..255

IsCont(b) == b \in 128..191

\* Number of bytes of the UTF-8 sequence starting at b[i], 0 when the
\* bytes at i are not a well-formed sequence (strict decoder).
Utf8SeqLen(b, i) ==
  LET b1 == b[i]
      has(k) == i + k <= Len(b)
  IN IF b1 \in 0..127 THEN 1
     ELSE IF b1 \in 194..223
       THEN IF has(1) /\ IsCont(b[i+1]) THEN 2 ELSE 0
     ELSE IF b1 \in 224..239
       THEN IF /\ has(2)
               /\ IsCont(b[i+1])
               /\ IsCont(b[i+2])
               /\ (b1 = 224 => b[i+1] >= 160)
               /\ (b1 = 237 => b[i+1] <= 159)
            THEN 3 ELSE 0
     ELSE IF b1 \in 240..244
       THEN IF /\ has(3)
               /\ IsCont(b[i+1])
               /\ IsCont(b[i+2])
               /\ IsCont(b[i+3])
               /\ (b1 = 240 => b[i+1] >= 144)
               /\ (b1 = 244 => b[i+1] <= 143)
            THEN 4 ELSE 0
     ELSE 0

Utf8CodePoint(b, i, n) ==
  IF n = 1 THEN b[i]
  ELSE IF n = 2 THEN (b[i] - 192) * 64 + (b[i+1] - 128)
  ELSE IF n = 3 THEN (b[i] - 224) * 4096 + (b[i+1] - 128) * 64 + (b[i+2] - 128)
  ELSE (b[i] - 240) * 262144 + (b[i+1] - 128) * 4096
         + (b[i+2] - 128) * 64 + (b[i+3] - 128)

RECURSIVE Utf8Valid(_, _)
Utf8Valid(b, i) ==
  IF i > Len(b) THEN TRUE
  ELSE LET n == Utf8SeqLen(b, i) IN n > 0 /\ Utf8Valid(b, i + n)

RECURSIVE Utf8Decode(_, _)
Utf8Decode(b, i) ==
  IF i > Len(b) THEN <<>>
  ELSE LET n == Utf8SeqLen(b, i)
       IN <<Utf8CodePoint(b, i, n)>> \o Utf8Decode(b, i + n)

\* text.encode('latin1').decode('utf-8') raises
RoundTripFails(text) == ~Latin1Encodable(text) \/ ~Utf8Valid(text, 1)

\* Faulty variant: text that cannot be round-tripped is dropped
fix_encoding_swallow(text) ==
  IF text = NoneText \/ text = <<>> THEN <<>>
  ELSE IF RoundTripFails(text) THEN <<>>
  ELSE Utf8Decode(text, 1)

fix_encoding(text) ==
  IF text = NoneText \/ text = <<>> THEN <<>>
  ELSE IF RoundTripFails(text) THEN text
  ELSE Utf8Decode(text, 1)

(***************************************************************************)
(* Timestamps                                                              *)
(***************************************************************************)
\* Lexicographic order on strings (sequences of integers)
RECURSIVE LexLeq(_, _)
LexLeq(a, b) ==
  IF a = <<>> THEN TRUE
  ELSE IF b = <<>> THEN FALSE
  ELSE IF Head(a) < Head(b) THEN TRUE
  ELSE IF Head(a) > Head(b) THEN FALSE
  ELSE LexLeq(Tail(a), Tail(b))

\* min(list) / max(list) of a non-empty list of strings
RECURSIVE MinOf(_)
MinOf(s) ==
  IF Len(s) = 1 THEN s[1]
  ELSE LET m == MinOf(Tail(s)) IN IF LexLeq(s[1], m) THEN s[1] ELSE m
RECURSIVE MaxOf(_)
MaxOf(s) ==
  IF Len(s) = 1 THEN s[1]
  ELSE LET m == MaxOf(Tail(s)) IN IF LexLeq(m, s[1]) THEN s[1] ELSE m

\* Gregorian date of the day number z counted from 1970-01-01
CivilFromDays(z) ==
  LET zz  == z + 719468
      era == zz \div 146097
      doe == zz - era * 146097
      yoe == (doe - doe \div 1460 + doe \div 36524 - doe \div 146096) \div 365
      doy == doe - (365 * yoe + yoe \div 4 - yoe \div 100)
      mp  == (5 * doy + 2) \div 153
      d   == doy - (153 * mp + 2) \div 5 + 1
      m   == IF mp < 10 THEN mp + 3 ELSE mp - 9
      y   == yoe + era * 400 + (IF m <= 2 THEN 1 ELSE 0)
  IN <<y, m, d>>

\* parse_instagram.py: datetime.utcfromtimestamp(ts).isoformat() + 'Z'
parse_timestamp(ts) ==
  LET days == ts \div 86400
      sod  == ts % 86400
  IN CivilFromDays(days) \o <<sod \div 3600, (sod % 3600) \div 60, sod % 60>> \o <<90>>

(***************************************************************************)
(* A date text is described by the strptime pattern it matches and the     *)
(* fields it carries: kind "none" is None, "empty" is '', "blank" is       *)
(* whitespace only, "ymd" is YYYY-MM-DD, "ymdhms" is YYYY-MM-DD HH:MM:SS,  *)
(* "twitter" is 'Wed Oct 10 20:19:24 +0000 2018', "other" is any other     *)
(* non-blank text; pad says the text has surrounding whitespace.           *)
(***************************************************************************)
DateText(kind, pad, ymd, hms, off) ==
  [kind |-> kind, pad |-> pad, ymd |-> ymd, hms |-> hms, off |-> off]

DateNone   == DateText("none", FALSE, <<0, 0, 0>>, <<0, 0, 0>>, <<43, 0, 0>>)
DateEmpty  == DateText("empty", FALSE, <<0, 0, 0>>, <<0, 0, 0>>, <<43, 0, 0>>)
DateBlank  == DateText("blank", TRUE, <<0, 0, 0>>, <<0, 0, 0>>, <<43, 0, 0>>)
DateOther  == DateText("other", FALSE, <<0, 0, 0>>, <<0, 0, 0>>, <<43, 0, 0>>)

\* outcome of a conversion: a returned value or a raised exception
Returned(v) == [raised |-> "none", value |-> v]
Raised(e)   == [raised |-> e, value |-> NoneTs]

\* parse_linkedin.py: parse_date
parse_date(d) ==
  IF d.kind \in {"none", "empty"} THEN Returned(NoneTs)
  ELSE IF d.kind = "ymd" THEN Returned(d.ymd \o <<0, 0, 0>>)
  ELSE IF d.kind = "ymdhms" THEN Returned(d.ymd \o d.hms)
  ELSE Returned(NoneTs)

\* parse_linkedin.py call sites: parse_date(row.get('Date', ''))
li_timestamp(row) == parse_date(Get(row, "Date", DateEmpty))

\* parse_twitter.py: parse_tweet_date
parse_tweet_date(d) ==
  IF d.kind = "none" THEN Raised("TypeError")
  ELSE IF d.kind = "twitter" /\ ~d.pad THEN Returned(d.ymd \o d.hms \o d.off)
  ELSE Raised("ValueError")

\* parse_twitter.py call site: parse_tweet_date(tweet['created_at'])
tw_timestamp(tweet) ==
  IF "created_at" \in DOMAIN tweet THEN parse_tweet_date(tweet.created_at)
  ELSE Raised("KeyError")

(***************************************************************************)
(* The normalizers applied alone                                           *)
(***************************************************************************)
CodePoints == {32, 97, 131, 160, 169, 194, 195, 8364}
Texts == SeqsUpTo(CodePoints, MaxTextLen) \cup {NoneText}

NotApplied == <<-2>>

EncIdle == [text |-> <<>>, once |-> NotApplied, twice |-> NotApplied]
DtIdle ==
  [input |-> DateNone, present |-> FALSE, fn |-> "none", out |-> Returned(NoneTs)]
RdIdle ==
  [kind |-> "none", isThere |-> FALSE, applied |-> FALSE,
   content |-> [ok |-> TRUE, shape |-> "list", data |-> <<>>],
   out |-> Returned(<<>>)]
MainIdle ==
  /\ platform = "none"
  /\ pc = "idle"
  /\ probe = [who |-> "none", exists |-> {}, read |-> "none"]
  /\ raw = [ok |-> TRUE, shape |-> "list", data |-> <<>>]
  /\ absent = {}
  /\ comps = <<>>
  /\ result = <<>>
  /\ output = <<>>
  /\ err = "none"

InitEncoding ==
  /\ enc \in [text : Texts, once : {NotApplied}, twice : {NotApplied}]
  /\ dt = DtIdle
  /\ rd = RdIdle
  /\ MainIdle

Repair ==
  /\ enc.once = NotApplied
  /\ enc' = [enc EXCEPT !.once = fix_encoding(enc.text)]
  /\ UNCHANGED <<dt, rd, mainVars>>

RepairAgain ==
  /\ enc.once # NotApplied
  /\ enc.twice = NotApplied
  /\ enc' = [enc EXCEPT !.twice = fix_encoding(enc.once)]
  /\ UNCHANGED <<dt, rd, mainVars>>

NextEncoding == Repair \/ RepairAgain

SpecEncoding == InitEncoding /\ [][NextEncoding]_vars

(***************************************************************************)
(* The three pipelines: shared parts                                       *)
(***************************************************************************)
NoneStr == "<None>"
EmptyDict == <<>>

\* truthiness of a str-or-None value
TruthyStr(v) == v # NoneStr /\ v # ""

TxtA == <<97>>
TxtB == <<98>>
TxtBlank == <<32>>
\* "é" and a no-break space, each mis-decoded as latin-1
TxtMoji == <<195, 169>>
TxtMojiNbsp == <<194, 160>>

\* What a file holds: ok is FALSE when it does not parse; shape is the JSON
\* top-level type; data the parsed value.
Unparsable == [ok |-> FALSE, shape |-> "list", data |-> <<>>]
ListFile(rows) == [ok |-> TRUE, shape |-> "list", data |-> rows]
DictFile(d) == [ok |-> TRUE, shape |-> "dict", data |-> d]
NoFile == ListFile(<<>>)

\* [i['timestamp'] for i in items if i['timestamp']]
RECURSIVE TimestampsOf(_)
TimestampsOf(items) ==
  IF items = <<>> THEN <<>>
  ELSE (IF Head(items).timestamp # NoneTs THEN <<Head(items).timestamp>> ELSE <<>>)
         \o TimestampsOf(Tail(items))

\* len([i for i in items if i['type'] == t])
CountType(items, t) == Cardinality({i \in 1..Len(items) : items[i].type = t})

\* An extractor call in main() returns: its value is bound to the local
\* `var` and main goes on to `nextPc`; or it raises, and the exception,
\* which main does not catch, ends the run.
Finish(who, ex, read, loaded, out, var, nextPc) ==
  /\ probe' = [who |-> who, exists |-> ex, read |-> read]
  /\ raw' = loaded
  /\ absent' = IF read = "none" THEN absent \cup {var} ELSE absent
  /\ IF out.raised # "none"
       THEN pc' = "failed" /\ err' = out.raised /\ comps' = comps
       ELSE pc' = nextPc /\ err' = err /\ comps' = comps @@ (var :> out.value)
  /\ UNCHANGED <<enc, dt, rd, platform, result, output>>

Platforms == {"twitter", "linkedin", "instagram"}

FirstExtractor(p) ==
  IF p = "twitter" THEN "extract_tweets"
  ELSE IF p = "linkedin" THEN "extract_shares"
  ELSE "extract_posts"

Init ==
  /\ enc = EncIdle
  /\ dt = DtIdle
  /\ rd = RdIdle
  /\ platform \in Platforms
  /\ pc = "start"
  /\ probe = [who |-> "none", exists |-> {}, read |-> "none"]
  /\ raw = NoFile
  /\ absent = {}
  /\ comps = EmptyDict
  /\ result = EmptyDict
  /\ output = EmptyDict
  /\ err = "none"

\* main(): `if not export_path.exists(): ... sys.exit(1)`
CheckRoot ==
  /\ pc = "start"
  /\ \E rootExists \in BOOLEAN :
       pc' = IF rootExists THEN FirstExtractor(platform) ELSE "exit1"
  /\ UNCHANGED <<enc, dt, rd, platform, probe, raw, absent, comps, result, output, err>>

\* main(): `with open(output_file, 'w') ...: json.dump(result, f, ...)`
WriteOutput ==
  /\ pc = "write"
  /\ output' = result
  /\ pc' = "done"
  /\ UNCHANGED <<enc, dt, rd, platform, probe, raw, absent, comps, result, err>>

\* the result dict is built (and its date range computed), or min() raises
Built(out) ==
  /\ IF out.raised # "none"
       THEN pc' = "failed" /\ err' = out.raised /\ result' = result
       ELSE pc' = "write" /\ err' = err /\ result' = out.value
  /\ UNCHANGED <<enc, dt, rd, platform, probe, raw, absent, comps, output>>

(***************************************************************************)
(* parse_twitter.py                                                        *)
(***************************************************************************)
TwD1 == DateText("twitter", FALSE, <<2018, 10, 10>>, <<20, 19, 24>>, <<43, 0, 0>>)
TwD2 == DateText("twitter", FALSE, <<2017, 3, 2>>, <<8, 0, 0>>, <<43, 0, 0>>)
TwDIso == DateText("ymd", FALSE, <<2018, 10, 10>>, <<0, 0, 0>>, <<43, 0, 0>>)

TweetSamples ==
  { [full_text |-> TxtA, text |-> TxtB, created_at |-> TwD1, id_str |-> "1",
     favorite_count |-> 2],
    [tweet |-> [text |-> TxtB, created_at |-> TwD2, id |-> "2",
                in_reply_to_status_id_str |-> "9"]],
    [full_text |-> TxtBlank, text |-> TxtB, created_at |-> TwD1],
    [full_text |-> TxtA, created_at |-> TwDIso],
    [full_text |-> TxtB] }

TwLikeSamples ==
  { [like |-> [tweetId |-> "7", fullText |-> TxtA]],
    [like |-> [tweetId |-> "8"]],
    [tweetId |-> "6", fullText |-> TxtBlank] }

TwProfileSamples ==
  { <<>>,
    <<[profile |-> [description |-> [bio |-> "b", location |-> "l", website |-> "w"]]]>>,
    <<[description |-> [bio |-> "b"]]>> }

\* what a .js file of the archive may hold
JsContents(samples, n) == {Unparsable} \cup {ListFile(d) : d \in SeqsUpTo(samples, n)}

\* parse_js_file: read_text raises when the path does not exist
parse_js_file(isThere, content) ==
  IF ~isThere THEN Raised("FileNotFoundError")
  ELSE IF content.ok THEN Returned(content.data) ELSE Raised("JSONDecodeError")

\* extract_tweets: the tweets file, "none" when FileNotFoundError is raised
tw_tweets_file(ex) ==
  LET f == IF "data/tweets.js" \in ex THEN "data/tweets.js" ELSE "data/tweet.js"
  IN IF f \in ex THEN f ELSE "none"

tw_tweet_item(tweet, content, ts) ==
  [id |-> Get(tweet, "id_str", Get(tweet, "id", "")),
   type |-> IF TruthyStr(Get(tweet, "in_reply_to_status_id_str", NoneStr))
              THEN "reply" ELSE "post",
   timestamp |-> ts,
   content |-> content,
   metadata |->
     [platform |-> "twitter",
      engagement |-> [likes |-> Get(tweet, "favorite_count", 0),
                      replies |-> 0,
                      shares |-> Get(tweet, "retweet_count", 0)],
      context |-> Get(tweet, "in_reply_to_status_id_str", NoneStr),
      hashtags |-> LET hs == Get(Get(tweet, "entities", EmptyDict), "hashtags", <<>>)
                   IN [k \in DOMAIN hs |-> hs[k].text],
      mentions |-> LET ms == Get(Get(tweet, "entities", EmptyDict), "user_mentions", <<>>)
                   IN [k \in DOMAIN ms |-> ms[k].screen_name]]]

\* extract_tweets: the loop over raw_tweets
RECURSIVE tw_tweets_loop(_, _, _)
tw_tweets_loop(raw_tweets, i, items) ==
  IF i > Len(raw_tweets) THEN Returned(items)
  ELSE LET entry == raw_tweets[i]
           tweet == Get(entry, "tweet", entry)
           content == Get(tweet, "full_text", Get(tweet, "text", <<>>))
       IN IF IsBlank(content) THEN tw_tweets_loop(raw_tweets, i + 1, items)
          ELSE LET ts == tw_timestamp(tweet)
               IN IF ts.raised # "none" THEN ts
                  ELSE tw_tweets_loop(raw_tweets, i + 1,
                         Append(items, tw_tweet_item(tweet, content, ts.value)))

\* Faulty variant: a missing tweets file gives an empty list, as for the other files
tw_extract_tweets_lenient(read, content) ==
  IF read = "none" THEN Returned(<<>>)
  ELSE LET data == parse_js_file(TRUE, content)
       IN IF data.raised # "none" THEN data
          ELSE tw_tweets_loop(data.value, 1, <<>>)

tw_extract_tweets(read, content) ==
  IF read = "none" THEN Raised("FileNotFoundError")
  ELSE LET data == parse_js_file(TRUE, content)
       IN IF data.raised # "none" THEN data
          ELSE tw_tweets_loop(data.value, 1, <<>>)

tw_ExtractTweets ==
  /\ platform = "twitter"
  /\ pc = "extract_tweets"
  /\ \E ex \in SUBSET {"data/tweets.js", "data/tweet.js"} :
       LET read == tw_tweets_file(ex)
       IN \E content \in IF read = "none" THEN {NoFile}
                         ELSE JsContents(TweetSamples, MaxRecs) :
            Finish("extract_tweets", ex, read, content,
                   tw_extract_tweets(read, content), "tweets", "extract_likes")

tw_like_item(like, content) ==
  [id |-> Get(like, "tweetId", ""),
   type |-> "like",
   timestamp |-> NoneTs,
   content |-> content,
   metadata |-> [platform |-> "twitter", engagement |-> EmptyDict,
                 context |-> NoneStr]]

RECURSIVE tw_likes_loop(_, _, _)
tw_likes_loop(raw_likes, i, items) ==
  IF i > Len(raw_likes) THEN items
  ELSE LET entry == raw_likes[i]
           like == Get(entry, "like", entry)
           content == Get(like, "fullText", <<>>)
       IN tw_likes_loop(raw_likes, i + 1,
            IF ~IsBlank(content) THEN Append(items, tw_like_item(like, content))
            ELSE items)

tw_extract_likes(read, content) ==
  IF read = "none" THEN Returned(<<>>)
  ELSE LET data == parse_js_file(TRUE, content)
       IN IF data.raised # "none" THEN data
          ELSE Returned(tw_likes_loop(data.value, 1, <<>>))

tw_ExtractLikes ==
  /\ platform = "twitter"
  /\ pc = "extract_likes"
  /\ \E ex \in SUBSET {"data/like.js"} :
       LET read == IF "data/like.js" \in ex THEN "data/like.js" ELSE "none"
       IN \E content \in IF read = "none" THEN {NoFile}
                         ELSE JsContents(TwLikeSamples, MaxAux) :
            Finish("extract_likes", ex, read, NoFile,
                   tw_extract_likes(read, content), "likes", "extract_profile")

tw_extract_profile(read, content) ==
  IF read = "none" THEN Returned(EmptyDict)
  ELSE LET data == parse_js_file(TRUE, content)
       IN IF data.raised # "none" THEN data
          ELSE IF Len(data.value) > 0
            THEN LET profile == Get(data.value[1], "profile", data.value[1])
                     description == Get(profile, "description", EmptyDict)
                 IN Returned([bio |-> Get(description, "bio", ""),
                              location |-> Get(description, "location", ""),
                              website |-> Get(description, "website", "")])
          ELSE Returned(EmptyDict)

tw_ExtractProfile ==
  /\ platform = "twitter"
  /\ pc = "extract_profile"
  /\ \E ex \in SUBSET {"data/profile.js"} :
       LET read == IF "data/profile.js" \in ex THEN "data/profile.js" ELSE "none"
       IN \E content \in IF read = "none" THEN {NoFile}
                         ELSE {Unparsable} \cup {ListFile(d) : d \in TwProfileSamples} :
            Finish("extract_profile", ex, read, NoFile,
                   tw_extract_profile(read, content), "profile", "build")

\* Faulty variant: the date range taken without the `if tweets:` test
tw_date_range_always(tweets) ==
  LET dates == TimestampsOf(tweets)
  IN IF dates = <<>> THEN Raised("ValueError")
     ELSE Returned([start |-> MinOf(dates), end |-> MaxOf(dates)])

\* main(): the date range is taken when there is any tweet
tw_date_range(tweets) ==
  IF tweets # <<>>
    THEN LET dates == TimestampsOf(tweets)
         IN IF dates = <<>> THEN Raised("ValueError")
            ELSE Returned([start |-> MinOf(dates), end |-> MaxOf(dates)])
  ELSE Returned(EmptyDict)

\* Faulty variant: replies counted as tweets
tw_stats_unsplit(tweets, likes) ==
  [total_tweets |-> Len(tweets),
   total_replies |-> CountType(tweets, "reply"),
   total_likes |-> Len(likes)]

tw_stats(tweets, likes) ==
  [total_tweets |-> CountType(tweets, "post"),
   total_replies |-> CountType(tweets, "reply"),
   total_likes |-> Len(likes)]

\* a result dict, with the date_range key when a range was computed
WithDateRange(base, range) ==
  IF range.raised # "none" THEN range
  ELSE IF range.value = EmptyDict THEN Returned(base)
  ELSE Returned(base @@ ("date_range" :> range.value))

tw_result(tweets, likes, profile) ==
  WithDateRange(
    [platform |-> "twitter",
     profile |-> profile,
     items |-> tweets \o likes,
     stats |-> tw_stats(tweets, likes)],
    tw_date_range(tweets))

tw_Build ==
  /\ platform = "twitter"
  /\ pc = "build"
  /\ Built(tw_result(comps.tweets, comps.likes, comps.profile))

(***************************************************************************)
(* parse_linkedin.py                                                       *)
(***************************************************************************)
LiD1 == DateText("ymd", FALSE, <<2023, 1, 1>>, <<0, 0, 0>>, <<43, 0, 0>>)
LiD2 == DateText("ymdhms", TRUE, <<2022, 5, 5>>, <<10, 0, 0>>, <<43, 0, 0>>)
LiD3 == DateText("ymd", FALSE, <<2018, 10, 10>>, <<0, 0, 0>>, <<43, 0, 0>>)
LiD4 == DateText("ymdhms", FALSE, <<2023, 6, 1>>, <<0, 0, 1>>, <<43, 0, 0>>)

\* csv.DictReader gives every row of a file the keys of the header row; a
\* short row has None for the columns it lacks.
\* Shares.csv: the column sets seen across export versions, and row values
\* <<date, link, commentary>>
ShareHeaders == {"modern", "legacy", "both"}
ShareValues ==
  { <<LiD1, "l1", TxtA>>,
    <<LiD2, "l2", TxtB>>,
    <<LiD1, "l3", TxtBlank>>,
    <<DateOther, "l4", TxtA>>,
    <<LiD1, NoneStr, NoneText>> }

ShareRow(h, v) ==
  IF h = "modern"
    THEN ("Date" :> v[1]) @@ ("ShareLink" :> v[2]) @@ ("ShareCommentary" :> v[3])
  ELSE IF h = "legacy"
    THEN ("Date" :> v[1]) @@ ("Share Link" :> v[2]) @@ ("Share Commentary" :> v[3])
  ELSE ("Date" :> v[1]) @@ ("ShareLink" :> v[2]) @@ ("ShareCommentary" :> v[3])
         @@ ("Share Link" :> "old") @@ ("Share Commentary" :> TxtB)

ShareContents ==
  {ListFile([i \in DOMAIN vs |-> ShareRow(h, vs[i])]) :
     h \in ShareHeaders, vs \in SeqsUpTo(ShareValues, MaxRecs)}

CommentHeaders == {"message", "comment"}
CommentValues == { <<LiD3, "c1", TxtA>>, <<DateEmpty, "c2", TxtBlank>> }
CommentRow(h, v) ==
  IF h = "message"
    THEN ("Date" :> v[1]) @@ ("Link" :> v[2]) @@ ("Message" :> v[3])
  ELSE ("Date" :> v[1]) @@ ("Link" :> v[2]) @@ ("Comment" :> v[3])

CommentContents ==
  {ListFile([i \in DOMAIN vs |-> CommentRow(h, vs[i])]) :
     h \in CommentHeaders, vs \in SeqsUpTo(CommentValues, MaxAux)}

ReactionHeaders == {"typed", "untyped"}
ReactionValues == { <<LiD4, "r1", "PRAISE">>, <<DateEmpty, "r2", "LIKE">> }
ReactionRow(h, v) ==
  IF h = "typed"
    THEN ("Date" :> v[1]) @@ ("Link" :> v[2]) @@ ("Type" :> v[3])
  ELSE ("Date" :> v[1]) @@ ("Link" :> v[2])

ReactionContents ==
  {ListFile([i \in DOMAIN vs |-> ReactionRow(h, vs[i])]) :
     h \in ReactionHeaders, vs \in SeqsUpTo(ReactionValues, MaxAux)}

LiProfileSamples ==
  { <<>>,
    << ("First Name" :> TxtA) @@ ("Last Name" :> TxtB) @@ ("Headline" :> "h")
         @@ ("Summary" :> "s") @@ ("Industry" :> "i") @@ ("Geo Location" :> "g")
         @@ ("Location" :> "old") >>,
    << ("Last Name" :> TxtB) @@ ("Location" :> "old") >> }

PositionSamples == { ("Company Name" :> "c") @@ ("Title" :> "t") }
SkillSamples == { [Name |-> "s"], [Name |-> ""], [Other |-> "x"] }

\* Faulty variant: read_csv_file without the exists() test
read_csv_file_strict(isThere, content) ==
  IF ~isThere THEN Raised("FileNotFoundError") ELSE Returned(content.data)

read_csv_file(isThere, content) ==
  IF ~isThere THEN Returned(<<>>) ELSE Returned(content.data)

li_item(id, type, ts, content, metadata) ==
  [id |-> id, type |-> type, timestamp |-> ts, content |-> content,
   metadata |-> metadata]

\* Faulty variant: the legacy column names tried before the current ones
RECURSIVE li_shares_loop_legacy_first(_, _, _)
li_shares_loop_legacy_first(raw_shares, i, items) ==
  IF i > Len(raw_shares) THEN Returned(items)
  ELSE LET share == raw_shares[i]
           content == Get(share, "Share Commentary", Get(share, "ShareCommentary", <<>>))
           link == Get(share, "Share Link", Get(share, "ShareLink", ""))
       IN IF content = NoneText THEN Raised("AttributeError")
          ELSE IF IsBlank(content)
            THEN li_shares_loop_legacy_first(raw_shares, i + 1, items)
          ELSE li_shares_loop_legacy_first(raw_shares, i + 1,
                 Append(items,
                   li_item(link, "post", li_timestamp(share).value, content,
                     [platform |-> "linkedin", engagement |-> EmptyDict,
                      context |-> link])))

\* extract_shares: the loop over raw_shares
RECURSIVE li_shares_loop(_, _, _)
li_shares_loop(raw_shares, i, items) ==
  IF i > Len(raw_shares) THEN Returned(items)
  ELSE LET share == raw_shares[i]
           content == Get(share, "ShareCommentary", Get(share, "Share Commentary", <<>>))
           link == Get(share, "ShareLink", Get(share, "Share Link", ""))
       IN IF content = NoneText THEN Raised("AttributeError")
          ELSE IF IsBlank(content) THEN li_shares_loop(raw_shares, i + 1, items)
          ELSE li_shares_loop(raw_shares, i + 1,
                 Append(items,
                   li_item(link, "post", li_timestamp(share).value, content,
                     [platform |-> "linkedin", engagement |-> EmptyDict,
                      context |-> link])))

li_extract_shares(isThere, content) ==
  LET rows == read_csv_file(isThere, content)
  IN IF rows.raised # "none" THEN rows ELSE li_shares_loop(rows.value, 1, <<>>)

\* extract_comments: the loop over raw_comments
RECURSIVE li_comments_loop(_, _, _)
li_comments_loop(raw_comments, i, items) ==
  IF i > Len(raw_comments) THEN Returned(items)
  ELSE LET comment == raw_comments[i]
           content == Get(comment, "Message", Get(comment, "Comment", <<>>))
       IN IF content = NoneText THEN Raised("AttributeError")
          ELSE IF IsBlank(content) THEN li_comments_loop(raw_comments, i + 1, items)
          ELSE li_comments_loop(raw_comments, i + 1,
                 Append(items,
                   li_item(Get(comment, "Link", ""), "comment",
                     li_timestamp(comment).value, content,
                     [platform |-> "linkedin", engagement |-> EmptyDict,
                      context |-> Get(comment, "Link", "")])))

li_extract_comments(isThere, content) ==
  LET rows == read_csv_file(isThere, content)
  IN IF rows.raised # "none" THEN rows ELSE li_comments_loop(rows.value, 1, <<>>)

\* extract_reactions
li_reaction_item(reaction) ==
  li_item(Get(reaction, "Link", ""), "like", li_timestamp(reaction).value, <<>>,
    [platform |-> "linkedin",
     reaction_type |-> Get(reaction, "Type", "LIKE"),
     engagement |-> EmptyDict,
     context |-> Get(reaction, "Link", "")])

li_extract_reactions(isThere, content) ==
  LET rows == read_csv_file(isThere, content)
  IN IF rows.raised # "none" THEN rows
     ELSE Returned([i \in DOMAIN rows.value |-> li_reaction_item(rows.value[i])])

\* extract_profile
li_extract_profile(isThere, content) ==
  LET profiles == read_csv_file(isThere, content)
  IN IF profiles.raised # "none" THEN profiles
     ELSE IF profiles.value # <<>>
       THEN LET p == profiles.value[1]
            IN Returned(
                 [name |-> Strip(Get(p, "First Name", <<>>) \o <<32>>
                                   \o Get(p, "Last Name", <<>>)),
                  headline |-> Get(p, "Headline", ""),
                  summary |-> Get(p, "Summary", ""),
                  industry |-> Get(p, "Industry", ""),
                  location |-> Get(p, "Geo Location", Get(p, "Location", ""))])
     ELSE Returned(EmptyDict)

\* extract_positions
li_extract_positions(isThere, content) == read_csv_file(isThere, content)

\* [s.get('Name', '') for s in skills if s.get('Name')]
RECURSIVE li_skill_names(_)
li_skill_names(skills) ==
  IF skills = <<>> THEN <<>>
  ELSE (IF TruthyStr(Get(Head(skills), "Name", NoneStr))
          THEN <<Get(Head(skills), "Name", "")>> ELSE <<>>)
         \o li_skill_names(Tail(skills))

\* extract_skills
li_extract_skills(isThere, content) ==
  LET skills == read_csv_file(isThere, content)
  IN IF skills.raised # "none" THEN skills
     ELSE Returned(li_skill_names(skills.value))

\* One extractor call of parse_linkedin.main(): the file is there or not,
\* and holds one of `contents`.
li_extract(who, isThere, content) ==
  CASE who = "extract_shares" -> li_extract_shares(isThere, content)
    [] who = "extract_comments" -> li_extract_comments(isThere, content)
    [] who = "extract_reactions" -> li_extract_reactions(isThere, content)
    [] who = "extract_profile" -> li_extract_profile(isThere, content)
    [] who = "extract_positions" -> li_extract_positions(isThere, content)
    [] who = "extract_skills" -> li_extract_skills(isThere, content)

LiExtract(who, path, contents, var, nextPc) ==
  \E ex \in SUBSET {path} :
    \E content \in IF path \in ex THEN contents ELSE {NoFile} :
      Finish(who, ex, IF path \in ex THEN path ELSE "none",
             IF who = "extract_shares" THEN content ELSE NoFile,
             li_extract(who, path \in ex, content), var, nextPc)

li_ExtractShares ==
  /\ platform = "linkedin"
  /\ pc = "extract_shares"
  /\ LiExtract("extract_shares", "Shares.csv",
       ShareContents, "shares", "extract_comments")

li_ExtractComments ==
  /\ platform = "linkedin"
  /\ pc = "extract_comments"
  /\ LiExtract("extract_comments", "Comments.csv",
       CommentContents, "comments", "extract_reactions")

li_ExtractReactions ==
  /\ platform = "linkedin"
  /\ pc = "extract_reactions"
  /\ LiExtract("extract_reactions", "Reactions.csv",
       ReactionContents, "reactions", "extract_profile")

li_ExtractProfile ==
  /\ platform = "linkedin"
  /\ pc = "extract_profile"
  /\ LiExtract("extract_profile", "Profile.csv",
       {ListFile(d) : d \in LiProfileSamples}, "profile", "extract_positions")

li_ExtractPositions ==
  /\ platform = "linkedin"
  /\ pc = "extract_positions"
  /\ LiExtract("extract_positions", "Positions.csv",
       {ListFile(d) : d \in SeqsUpTo(PositionSamples, MaxAux)}, "positions", "extract_skills")

li_ExtractSkills ==
  /\ platform = "linkedin"
  /\ pc = "extract_skills"
  /\ LiExtract("extract_skills", "Skills.csv",
       {ListFile(d) : d \in SeqsUpTo(SkillSamples, MaxAux)}, "skills", "build")

\* main(): the date range over the items with timestamps
date_range(all_items) ==
  LET timestamps == TimestampsOf(all_items)
  IN IF timestamps # <<>>
       THEN Returned([start |-> MinOf(timestamps), end |-> MaxOf(timestamps)])
     ELSE Returned(EmptyDict)

li_stats(shares, comments, reactions) ==
  [total_shares |-> Len(shares),
   total_comments |-> Len(comments),
   total_reactions |-> Len(reactions)]

li_result(shares, comments, reactions, profile, positions, skills) ==
  LET all_items == shares \o comments \o reactions
  IN WithDateRange(
       [platform |-> "linkedin",
        profile |-> profile,
        positions |-> positions,
        skills |-> skills,
        items |-> all_items,
        stats |-> li_stats(shares, comments, reactions)],
       date_range(all_items))

li_Build ==
  /\ platform = "linkedin"
  /\ pc = "build"
  /\ Built(li_result(comps.shares, comps.comments, comps.reactions,
                     comps.profile, comps.positions, comps.skills))

(***************************************************************************)
(* parse_instagram.py                                                      *)
(***************************************************************************)
\* epoch seconds of 2023-01-01, 2022-05-05, 2018-10-10 and 2023-06-01 (UTC)
IgT1 == 19358 * 86400
IgT2 == 19117 * 86400
IgT3 == 17814 * 86400 + 3600
IgT4 == 19509 * 86400 + 59

IgMedia1 == [title |-> TxtA, creation_timestamp |-> IgT1, uri |-> "photos/1.jpg"]
IgMedia2 == [title |-> TxtMoji, creation_timestamp |-> IgT2, uri |-> "videos/2.mp4"]
IgMedia3 == [title |-> TxtB]

PostSamples ==
  { IgMedia1,
    IgMedia2,
    [title |-> TxtBlank, creation_timestamp |-> IgT1],
    [title |-> TxtA, creation_timestamp |-> 0],
    [title |-> TxtMojiNbsp, creation_timestamp |-> IgT1, uri |-> "photos/3.jpg"],
    [media |-> <<IgMedia3, IgMedia2>>, title |-> TxtA] }

IgCommentSamples ==
  { [string_list_data |-> <<[value |-> TxtA, timestamp |-> IgT3]>>],
    [value |-> TxtMoji, comment |-> TxtA, timestamp |-> 0],
    [comment |-> TxtBlank] }

IgLikeSamples ==
  { [string_list_data |-> <<[timestamp |-> IgT4]>>, title |-> "x"],
    [timestamp |-> 0],
    [title |-> "y"] }

IgProfileSamples ==
  { ListFile(<<>>),
    DictFile(EmptyDict),
    DictFile([profile_user |-> <<>>]),
    DictFile([profile_user |->
      <<[string_map_data |-> [Username |-> [value |-> "u"],
                              Bio |-> [value |-> TxtMoji],
                              Name |-> [value |-> "n"]]]>>]) }

\* 'photo' in uri.lower(), on the sample URIs
HasPhoto(uri) == uri \in {"photos/1.jpg", "photos/3.jpg"}

\* Faulty variant: load_json_file without the exists() test
load_json_file_strict(isThere, content) ==
  IF ~isThere THEN Raised("FileNotFoundError")
  ELSE IF content.ok THEN Returned(content) ELSE Raised("JSONDecodeError")

\* load_json_file: the parsed value with its top-level shape
load_json_file(isThere, content) ==
  IF ~isThere THEN Returned(NoFile)
  ELSE IF content.ok THEN Returned(content) ELSE Raised("JSONDecodeError")

\* Faulty variant: the candidates tried in the reverse order
ig_content_dir_last(ex) ==
  IF "posts_1.json" \in ex THEN "."
  ELSE IF "your_instagram_activity/content" \in ex
    THEN "your_instagram_activity/content"
  ELSE IF "content" \in ex THEN "content"
  ELSE "none"

\* extract_posts: the directory searched for posts*.json, "none" when the
\* extractor returns early; "." is the export root
ig_content_dir(ex) ==
  LET d1 == IF "content" \in ex THEN "content"
            ELSE "your_instagram_activity/content"
      d2 == IF d1 \notin ex /\ "posts_1.json" \in ex THEN "." ELSE d1
  IN IF d2 = "." \/ d2 \in ex THEN d2 ELSE "none"

\* extract_comments: the comments file, "none" when the extractor returns early
ig_comments_file(ex) ==
  LET f1 == IF "comments/post_comments.json" \in ex
              THEN "comments/post_comments.json"
            ELSE "your_instagram_activity/comments/post_comments.json"
      f2 == IF f1 \in ex THEN f1 ELSE "comments.json"
  IN IF f2 \in ex THEN f2 ELSE "none"

\* extract_likes: the likes file
ig_likes_file(ex) ==
  LET f1 == IF "likes/liked_posts.json" \in ex THEN "likes/liked_posts.json"
            ELSE "your_instagram_activity/likes/liked_posts.json"
  IN IF f1 \in ex THEN f1 ELSE "none"

\* extract_profile: the profile file
ig_profile_file(ex) ==
  LET f1 == IF "personal_information/personal_information.json" \in ex
              THEN "personal_information/personal_information.json"
            ELSE "profile.json"
  IN IF f1 \in ex THEN f1 ELSE "none"

ig_item(type, ts, content, metadata) ==
  [id |-> "", type |-> type, timestamp |-> ts, content |-> content,
   metadata |-> metadata]

\* `parse_timestamp(timestamp) if timestamp else None`, timestamp being
\* d.get('timestamp')
ig_timestamp_if_truthy(d) ==
  IF "timestamp" \in DOMAIN d /\ d.timestamp # 0
    THEN parse_timestamp(d.timestamp) ELSE NoneTs

\* extract_posts: the sub-items the two nested loops visit, in order
RECURSIVE ig_media_of(_)
ig_media_of(raw_posts) ==
  IF raw_posts = <<>> THEN <<>>
  ELSE Get(Head(raw_posts), "media", <<Head(raw_posts)>>)
         \o ig_media_of(Tail(raw_posts))

ig_post_item(media, caption) ==
  [id |-> Get(media, "uri", ""),
   type |-> "post",
   timestamp |-> IF "creation_timestamp" \in DOMAIN media
                   THEN parse_timestamp(media.creation_timestamp) ELSE NoneTs,
   content |-> caption,
   metadata |-> [platform |-> "instagram", engagement |-> EmptyDict,
                 context |-> NoneStr,
                 media_type |-> IF HasPhoto(Get(media, "uri", ""))
                                  THEN "photo" ELSE "video"]]

\* Faulty variant: blankness tested on the title as stored, before the repair
RECURSIVE ig_posts_loop_unrepaired(_, _, _)
ig_posts_loop_unrepaired(media_list, i, items) ==
  IF i > Len(media_list) THEN items
  ELSE LET media == media_list[i]
           caption == fix_encoding(Get(media, "title", <<>>))
       IN ig_posts_loop_unrepaired(media_list, i + 1,
            IF IsBlank(Get(media, "title", <<>>)) THEN items
            ELSE Append(items, ig_post_item(media, caption)))

RECURSIVE ig_posts_loop(_, _, _)
ig_posts_loop(media_list, i, items) ==
  IF i > Len(media_list) THEN items
  ELSE LET media == media_list[i]
           caption == fix_encoding(Get(media, "title", <<>>))
       IN ig_posts_loop(media_list, i + 1,
            IF IsBlank(caption) THEN items
            ELSE Append(items, ig_post_item(media, caption)))

\* extract_posts; content is what the posts*.json files of the directory
\* hold, in glob order
ig_extract_posts(read, content) ==
  IF read = "none" THEN Returned(<<>>)
  ELSE LET raw_posts == load_json_file(TRUE, content)
       IN IF raw_posts.raised # "none" THEN raw_posts
          ELSE Returned(ig_posts_loop(ig_media_of(raw_posts.value.data), 1, <<>>))

ig_comment_item(text, ts) ==
  ig_item("comment", ts, text,
    [platform |-> "instagram", engagement |-> EmptyDict, context |-> NoneStr])

RECURSIVE ig_comments_loop(_, _, _)
ig_comments_loop(comments_list, i, items) ==
  IF i > Len(comments_list) THEN items
  ELSE LET comment == comments_list[i]
           string_data == Get(comment, "string_list_data", <<>>)
           src == IF string_data # <<>> THEN string_data[1] ELSE comment
           text == IF string_data # <<>>
                     THEN fix_encoding(Get(src, "value", <<>>))
                   ELSE fix_encoding(Get(src, "value", Get(src, "comment", <<>>)))
       IN ig_comments_loop(comments_list, i + 1,
            IF IsBlank(text) THEN items
            ELSE Append(items, ig_comment_item(text, ig_timestamp_if_truthy(src))))

ig_extract_comments(read, content) ==
  IF read = "none" THEN Returned(<<>>)
  ELSE LET raw_data == load_json_file(TRUE, content)
       IN IF raw_data.raised # "none" THEN raw_data
          ELSE LET comments_list ==
                     IF raw_data.value.shape = "dict"
                       THEN Get(raw_data.value.data, "comments_media_comments",
                                Get(raw_data.value.data, "comments", <<>>))
                     ELSE raw_data.value.data
               IN Returned(ig_comments_loop(comments_list, 1, <<>>))

ig_like_item(like) ==
  LET string_data == Get(like, "string_list_data", <<>>)
      src == IF string_data # <<>> THEN string_data[1] ELSE like
  IN ig_item("like", ig_timestamp_if_truthy(src), <<>>,
       [platform |-> "instagram", engagement |-> EmptyDict, context |-> NoneStr])

ig_extract_likes(read, content) ==
  IF read = "none" THEN Returned(<<>>)
  ELSE LET raw_data == load_json_file(TRUE, content)
       IN IF raw_data.raised # "none" THEN raw_data
          ELSE LET likes_list ==
                     IF raw_data.value.shape = "dict"
                       THEN raw_data.value.data.likes_media_likes
                     ELSE raw_data.value.data
               IN Returned([i \in DOMAIN likes_list |-> ig_like_item(likes_list[i])])

ig_extract_profile(read, content) ==
  IF read = "none" THEN Returned(EmptyDict)
  ELSE LET data == load_json_file(TRUE, content)
       IN IF data.raised # "none" THEN data
          ELSE IF data.value.shape = "dict"
            THEN LET profile_data == Get(data.value.data, "profile_user", <<EmptyDict>>)
                 IN IF profile_data # <<>>
                      THEN LET p == profile_data[1]
                               string_data == Get(p, "string_map_data", EmptyDict)
                           IN Returned(
                                [username |-> Get(Get(string_data, "Username", EmptyDict),
                                                  "value", ""),
                                 bio |-> fix_encoding(
                                           Get(Get(string_data, "Bio", EmptyDict),
                                               "value", <<>>)),
                                 name |-> Get(Get(string_data, "Name", EmptyDict),
                                              "value", "")])
                    ELSE Returned(EmptyDict)
          ELSE Returned(EmptyDict)

\* what a JSON file holding a list of `samples` may be: unparsable, the bare
\* list, or the list under one of `keys` of a top-level object
JsonContents(samples, n, keys) ==
  {Unparsable}
    \cup {ListFile(d) : d \in SeqsUpTo(samples, n)}
    \cup {DictFile([k \in {key} |-> d]) : key \in keys, d \in SeqsUpTo(samples, n)}

\* what the comments file may hold; an object may carry the comment list
\* under both of the keys extract_comments knows
IgCommentFiles ==
  JsonContents(IgCommentSamples, MaxAux, {"comments_media_comments", "comments", "other"})
    \cup {DictFile([comments_media_comments |-> <<c[1]>>, comments |-> <<c[2]>>]) :
            c \in {d \in IgCommentSamples \X IgCommentSamples : d[1] # d[2]}}

ig_ExtractPosts ==
  /\ platform = "instagram"
  /\ pc = "extract_posts"
  /\ \E ex \in SUBSET {"content", "your_instagram_activity/content", "posts_1.json"} :
       LET read == ig_content_dir(ex)
       IN \E content \in IF read = "none" THEN {NoFile}
                         ELSE JsonContents(PostSamples, MaxRecs, {}) :
            Finish("extract_posts", ex, read, content,
                   ig_extract_posts(read, content), "posts", "extract_comments")

ig_ExtractComments ==
  /\ platform = "instagram"
  /\ pc = "extract_comments"
  /\ \E ex \in SUBSET {"comments/post_comments.json",
                       "your_instagram_activity/comments/post_comments.json",
                       "comments.json"} :
       LET read == ig_comments_file(ex)
       IN \E content \in IF read = "none" THEN {NoFile}
                         ELSE IgCommentFiles :
            Finish("extract_comments", ex, read, content,
                   ig_extract_comments(read, content), "comments", "extract_likes")

ig_ExtractLikes ==
  /\ platform = "instagram"
  /\ pc = "extract_likes"
  /\ \E ex \in SUBSET {"likes/liked_posts.json",
                       "your_instagram_activity/likes/liked_posts.json"} :
       LET read == ig_likes_file(ex)
       IN \E content \in IF read = "none" THEN {NoFile}
                         ELSE JsonContents(IgLikeSamples, MaxAux, {"likes_media_likes"}) :
            Finish("extract_likes", ex, read, content,
                   ig_extract_likes(read, content), "likes", "extract_profile")

ig_ExtractProfile ==
  /\ platform = "instagram"
  /\ pc = "extract_profile"
  /\ \E ex \in SUBSET {"personal_information/personal_information.json",
                       "profile.json"} :
       LET read == ig_profile_file(ex)
       IN \E content \in IF read = "none" THEN {NoFile}
                         ELSE {Unparsable} \cup IgProfileSamples :
            Finish("extract_profile", ex, read, NoFile,
                   ig_extract_profile(read, content), "profile", "build")

ig_stats(posts, comments, likes) ==
  [total_posts |-> Len(posts),
   total_comments |-> Len(comments),
   total_likes |-> Len(likes)]

\* Faulty variant: the date range taken over the posts alone
ig_result_posts_range(posts, comments, likes, profile) ==
  LET all_items == posts \o comments \o likes
  IN WithDateRange(
       [platform |-> "instagram",
        profile |-> profile,
        items |-> all_items,
        stats |-> ig_stats(posts, comments, likes)],
       date_range(posts))

ig_result(posts, comments, likes, profile) ==
  LET all_items == posts \o comments \o likes
  IN WithDateRange(
       [platform |-> "instagram",
        profile |-> profile,
        items |-> all_items,
        stats |-> ig_stats(posts, comments, likes)],
       date_range(all_items))

ig_Build ==
  /\ platform = "instagram"
  /\ pc = "build"
  /\ Built(ig_result(comps.posts, comps.comments, comps.likes, comps.profile))

Next ==
  \/ CheckRoot
  \/ tw_ExtractTweets
  \/ tw_ExtractLikes
  \/ tw_ExtractProfile
  \/ tw_Build
  \/ li_ExtractShares
  \/ li_ExtractComments
  \/ li_ExtractReactions
  \/ li_ExtractProfile
  \/ li_ExtractPositions
  \/ li_ExtractSkills
  \/ li_Build
  \/ ig_ExtractPosts
  \/ ig_ExtractComments
  \/ ig_ExtractLikes
  \/ ig_ExtractProfile
  \/ ig_Build
  \/ WriteOutput

Spec == Init /\ [][Next]_vars

\* C9 (as stated): repairing twice gives the same text as repairing once,
\* for every text.
C9_Idempotent == enc.twice # NotApplied => enc.twice = enc.once

IsAscii(text) == \A i \in 1..Len(text) : text[i] \in 0..127

\* C9 (amended): text that cannot be round-tripped is returned unchanged, and
\* a second repair changes nothing whenever the once-repaired text cannot be
\* round-tripped again or is pure ASCII (the text held at most one layer of
\* mis-decoding).
C9_RepairOneLayer ==
  /\ (enc.once # NotApplied /\ enc.text # NoneText /\ RoundTripFails(enc.text))
       => enc.once = enc.text
  /\ (enc.twice # NotApplied /\ (RoundTripFails(enc.once) \/ IsAscii(enc.once)))
       => enc.twice = enc.once

C9_Witness ==
  /\ enc.twice # NotApplied
  /\ enc.text # NoneText
  /\ enc.once # enc.text
  /\ RoundTripFails(enc.once)
  /\ enc.twice = enc.once

SampleYmd == {<<2023, 1, 1>>, <<2022, 5, 5>>, <<2018, 10, 10>>}
SampleHms == {<<0, 0, 0>>, <<20, 19, 24>>}
SampleOff == {<<43, 0, 0>>, <<45, 5, 0>>}

DateTexts ==
  {DateNone, DateEmpty, DateBlank, DateOther}
    \cup {DateText("ymd", p, d, <<0, 0, 0>>, <<43, 0, 0>>) :
             p \in BOOLEAN, d \in SampleYmd}
    \cup {DateText("ymdhms", x[1], x[2], x[3], <<43, 0, 0>>) :
             x \in BOOLEAN \X SampleYmd \X SampleHms}
    \cup {DateText("twitter", x[1], x[2], x[3], x[4]) :
             x \in BOOLEAN \X SampleYmd \X SampleHms \X SampleOff}

InitDates ==
  /\ enc = EncIdle
  /\ dt \in [input : DateTexts, present : BOOLEAN, fn : {"none"},
              out : {Returned(NoneTs)}]
  /\ (~dt.present => dt.input = DateNone)
  /\ rd = RdIdle
  /\ MainIdle

\* the record handed to the extractor: it carries the date under `key`, or
\* has no such key
DateRecord(key) ==
  IF dt.present THEN [k \in {key} |-> dt.input] ELSE <<>>

ApplyParseDate ==
  /\ dt.fn = "none"
  /\ dt' = [dt EXCEPT !.fn = "parse_date",
                       !.out = li_timestamp(DateRecord("Date"))]
  /\ UNCHANGED <<enc, rd, mainVars>>

ApplyParseTweetDate ==
  /\ dt.fn = "none"
  /\ dt' = [dt EXCEPT !.fn = "parse_tweet_date",
                       !.out = tw_timestamp(DateRecord("created_at"))]
  /\ UNCHANGED <<enc, rd, mainVars>>

NextDates == ApplyParseDate \/ ApplyParseTweetDate

SpecDates == InitDates /\ [][NextDates]_vars

\* the text matches a pattern the converter dt.fn knows
MatchesKnownPattern ==
  /\ dt.present
  /\ \/ dt.fn = "parse_date" /\ dt.input.kind \in {"ymd", "ymdhms"}
     \/ dt.fn = "parse_tweet_date" /\ dt.input.kind = "twitter" /\ ~dt.input.pad

\* C8 (as stated): timestamp conversion never fails; it returns an ISO-8601
\* string when the input matches a known pattern and None when no pattern
\* matches or the input is empty or missing, for parse_date and for
\* parse_tweet_date as their extractors call them.
C8_ConversionNeverFails ==
  dt.fn # "none" =>
    /\ dt.out.raised = "none"
    /\ (MatchesKnownPattern <=> dt.out.value # NoneTs)

(***************************************************************************)
(* Properties of the pipelines                                             *)
(***************************************************************************)
HasResult == pc \in {"write", "done"}
Written == output # EmptyDict

PrimaryExtractors == {"extract_tweets", "extract_shares", "extract_posts"}

\* the local of main() an extractor's return value is bound to
VarOf(who) ==
  CASE who = "extract_tweets" -> "tweets"
    [] who = "extract_shares" -> "shares"
    [] who = "extract_posts" -> "posts"
    [] who = "extract_comments" -> "comments"
    [] who = "extract_likes" -> "likes"
    [] who = "extract_reactions" -> "reactions"
    [] who = "extract_profile" -> "profile"
    [] who = "extract_positions" -> "positions"
    [] who = "extract_skills" -> "skills"
    [] OTHER -> "none"

\* the locals main() binds, per platform
VarsOf(p) ==
  IF p = "twitter" THEN {"tweets", "likes", "profile"}
  ELSE IF p = "linkedin"
    THEN {"shares", "comments", "reactions", "profile", "positions", "skills"}
  ELSE {"posts", "comments", "likes", "profile"}

ItemsOfType(items, t) == {i \in 1..Len(items) : items[i].type = t}

C2_WriteAfterExtractors ==
  /\ (platform = "twitter" /\ "tweets" \in absent)
       => (pc = "failed" /\ err = "FileNotFoundError")
  /\ pc \in {"failed", "exit1"} => ~Written
  /\ Written => VarsOf(platform) \subseteq DOMAIN comps

C2_Witness ==
  /\ platform = "twitter"
  /\ probe = [who |-> "extract_tweets", exists |-> {}, read |-> "none"]
  /\ pc = "failed"
  /\ ~Written

AuxVars == {"profile", "likes", "reactions", "comments", "positions", "skills"}

\* the run failed while building the result, after every extractor returned
BuildFailed == pc = "failed" /\ VarsOf(platform) \subseteq DOMAIN comps

\* the part of a written result that comes from the local v of main() is
\* empty
OutputPartEmpty(v) ==
  CASE v = "profile" -> output.profile = EmptyDict
    [] v = "positions" -> output.positions = <<>>
    [] v = "skills" -> output.skills = <<>>
    [] v = "comments" -> ItemsOfType(output.items, "comment") = {}
    [] v \in {"likes", "reactions"} -> ItemsOfType(output.items, "like") = {}

\* `items` of a result is the concatenation of the lists the extractors
\* returned, in main()'s order
ItemsOfComps ==
  IF platform = "twitter" THEN comps.tweets \o comps.likes
  ELSE IF platform = "linkedin" THEN comps.shares \o comps.comments \o comps.reactions
  ELSE comps.posts \o comps.comments \o comps.likes

\* C3: an auxiliary file (profile, likes, reactions, comments, positions,
\* skills) absent from the export root never fails the run: its extractor
\* returns an empty list or profile, the run never fails outside an extractor
\* whose file exists (or the Twitter tweets extractor), and the output
\* written holds that empty component beside the unchanged others.
C3_MissingOptional ==
  /\ \A v \in absent \cap AuxVars :
       /\ v \in DOMAIN comps
       /\ comps[v] = <<>>
       /\ (pc = "done" => OutputPartEmpty(v))
  /\ pc = "failed" => (VarOf(probe.who) \notin absent \cap AuxVars /\ ~BuildFailed)
  /\ pc = "done" =>
       /\ Written
       /\ output.items = ItemsOfComps
       /\ output.profile = comps.profile

C3_Witness ==
  /\ pc = "done"
  /\ platform = "linkedin"
  /\ absent = {"reactions", "profile", "skills"}
  /\ Len(output.items) = 3

\* C4: a result has the date_range key exactly when one of its items has a
\* timestamp, and building the result never fails.
C4_DateRangeOmitted ==
  /\ HasResult =>
       ("date_range" \in DOMAIN result
          <=> \E i \in 1..Len(result.items) : result.items[i].timestamp # NoneTs)
  /\ ~BuildFailed

C4_Witness ==
  /\ pc = "done"
  /\ platform = "twitter"
  /\ output.items # <<>>
  /\ "date_range" \notin DOMAIN output

\* C5: when date_range is present, start is the least and end the greatest
\* of the timestamps of all items of the result, so both are timestamps of
\* items and start <= end.
C5_DateRangeMinMax ==
  (HasResult /\ "date_range" \in DOMAIN result) =>
    LET stamped == {i \in 1..Len(result.items) : result.items[i].timestamp # NoneTs}
    IN /\ \E i \in stamped : result.items[i].timestamp = result.date_range.start
       /\ \E i \in stamped : result.items[i].timestamp = result.date_range.end
       /\ \A i \in stamped :
            /\ LexLeq(result.date_range.start, result.items[i].timestamp)
            /\ LexLeq(result.items[i].timestamp, result.date_range.end)
       /\ LexLeq(result.date_range.start, result.date_range.end)

C5_Witness ==
  /\ pc = "done"
  /\ platform = "instagram"
  /\ "date_range" \in DOMAIN output
  /\ \E i \in ItemsOfType(output.items, "comment") :
       output.items[i].timestamp = output.date_range.start
  /\ \E i \in ItemsOfType(output.items, "like") :
       output.items[i].timestamp = output.date_range.end
  /\ \E i \in ItemsOfType(output.items, "post") :
       output.items[i].timestamp \notin
         {NoneTs, output.date_range.start, output.date_range.end}
  /\ \E i \in 1..Len(output.items) : output.items[i].timestamp = NoneTs

\* the kind of item each entry of stats counts
StatKinds ==
  IF platform = "twitter"
    THEN [total_tweets |-> "post", total_replies |-> "reply", total_likes |-> "like"]
  ELSE IF platform = "linkedin"
    THEN [total_shares |-> "post", total_comments |-> "comment",
          total_reactions |-> "like"]
  ELSE [total_posts |-> "post", total_comments |-> "comment", total_likes |-> "like"]

RECURSIVE SumOver(_, _)
SumOver(f, keys) ==
  IF keys = {} THEN 0
  ELSE LET k == CHOOSE x \in keys : TRUE IN f[k] + SumOver(f, keys \ {k})

\* C6: each entry of stats is the number of items of its kind in `items`,
\* and the entries sum to the length of `items`.
C6_StatsCountItems ==
  HasResult =>
    /\ DOMAIN result.stats = DOMAIN StatKinds
    /\ \A k \in DOMAIN StatKinds :
         result.stats[k] = Cardinality(ItemsOfType(result.items, StatKinds[k]))
    /\ SumOver(result.stats, DOMAIN result.stats) = Len(result.items)

C6_Witness ==
  /\ pc = "done"
  /\ platform = "twitter"
  /\ output.stats = [total_tweets |-> 1, total_replies |-> 1, total_likes |-> 1]

\* the records a primary-content extractor visits (for Instagram the
\* sub-items of each record), and the text of one after repair
ContentUnits ==
  IF platform = "instagram" THEN ig_media_of(raw.data)
  ELSE [i \in DOMAIN raw.data |-> Get(raw.data[i], "tweet", raw.data[i])]

ContentText(r) ==
  IF platform = "instagram" THEN fix_encoding(Get(r, "title", <<>>))
  ELSE IF platform = "twitter" THEN Get(r, "full_text", Get(r, "text", <<>>))
  ELSE Get(r, "ShareCommentary", Get(r, "Share Commentary", <<>>))

\* C7 (as stated): a primary-content extractor that loaded its records
\* never aborts the run, drops the records with empty or whitespace-only
\* text and emits exactly one item for every other record.
C7_OneItemPerContentRecord ==
  (probe.who \in PrimaryExtractors /\ probe.read # "none" /\ raw.ok) =>
    /\ pc # "failed"
    /\ Len(comps[VarOf(probe.who)])
         = Cardinality({i \in DOMAIN ContentUnits :
                          ~IsBlank(ContentText(ContentUnits[i]))})

\* the candidate paths of an extractor, in the order it tries them
Candidates(p, who) ==
  IF p = "twitter" THEN
    CASE who = "extract_tweets" -> <<"data/tweets.js", "data/tweet.js">>
      [] who = "extract_likes" -> <<"data/like.js">>
      [] who = "extract_profile" -> <<"data/profile.js">>
      [] OTHER -> <<>>
  ELSE IF p = "linkedin" THEN
    CASE who = "extract_shares" -> <<"Shares.csv">>
      [] who = "extract_comments" -> <<"Comments.csv">>
      [] who = "extract_reactions" -> <<"Reactions.csv">>
      [] who = "extract_profile" -> <<"Profile.csv">>
      [] who = "extract_positions" -> <<"Positions.csv">>
      [] who = "extract_skills" -> <<"Skills.csv">>
      [] OTHER -> <<>>
  ELSE
    CASE who = "extract_posts" ->
           <<"content", "your_instagram_activity/content", "posts_1.json">>
      [] who = "extract_comments" ->
           <<"comments/post_comments.json",
             "your_instagram_activity/comments/post_comments.json",
             "comments.json">>
      [] who = "extract_likes" ->
           <<"likes/liked_posts.json",
             "your_instagram_activity/likes/liked_posts.json">>
      [] who = "extract_profile" ->
           <<"personal_information/personal_information.json", "profile.json">>
      [] OTHER -> <<>>

\* what is read when candidate c is taken: the root-level posts_1.json
\* stands for the export root as the directory of the posts files
ReadTarget(c) == IF c = "posts_1.json" THEN "." ELSE c

\* C10: an extractor reads the first of its candidate paths that exists,
\* whatever later candidates exist; when none exists it returns an empty
\* list (or profile) without error, except the Twitter tweets extractor.
C10_FirstExistingCandidate ==
  probe.who # "none" =>
    LET cands == Candidates(platform, probe.who)
        found == {i \in DOMAIN cands : cands[i] \in probe.exists}
    IN /\ probe.exists \subseteq {cands[i] : i \in DOMAIN cands}
       /\ found # {} =>
            \E i \in found :
              /\ \A j \in found : i <= j
              /\ probe.read = ReadTarget(cands[i])
       /\ found = {} =>
            /\ probe.read = "none"
            /\ IF probe.who = "extract_tweets" THEN pc = "failed"
               ELSE /\ VarOf(probe.who) \in DOMAIN comps
                    /\ comps[VarOf(probe.who)] = <<>>

C10_Witness ==
  /\ platform = "instagram"
  /\ probe = [who |-> "extract_posts",
              exists |-> {"your_instagram_activity/content", "posts_1.json"},
              read |-> "your_instagram_activity/content"]
  /\ "posts" \in DOMAIN comps
  /\ Len(comps.posts) = 2

(***************************************************************************)
(* Ordered fallback over alternative keys                                  *)
(***************************************************************************)
\* the value of the first of `keys` that the record has, else the default
RECURSIVE FirstPresent(_, _, _)
FirstPresent(d, keys, default) ==
  IF keys = <<>> THEN default
  ELSE IF Head(keys) \in DOMAIN d THEN d[Head(keys)]
  ELSE FirstPresent(d, Tail(keys), default)

\* the records an extractor that loaded `raw` iterates over
RecordsOf(who) ==
  IF platform = "twitter"
    THEN [i \in DOMAIN raw.data |-> Get(raw.data[i], "tweet", raw.data[i])]
  ELSE IF platform = "linkedin" THEN raw.data
  ELSE IF who = "extract_posts" THEN ig_media_of(raw.data)
  ELSE IF raw.shape = "dict"
    THEN FirstPresent(raw.data,
           IF who = "extract_comments" THEN <<"comments_media_comments", "comments">>
           ELSE <<"likes_media_likes">>, <<>>)
  ELSE raw.data

\* Instagram comments and likes: the mapping that carries the fields, the
\* first element of a non-empty string_list_data or the record itself
FieldsOf(r) ==
  IF Get(r, "string_list_data", <<>>) # <<>> THEN r.string_list_data[1] ELSE r

\* the candidate keys of an extractor's text and of its id
ContentKeys(r) ==
  IF platform = "twitter" THEN <<"full_text", "text">>
  ELSE IF platform = "linkedin" THEN <<"ShareCommentary", "Share Commentary">>
  ELSE IF Get(r, "string_list_data", <<>>) # <<>> THEN <<"value">>
  ELSE <<"value", "comment">>

IdKeys ==
  IF platform = "twitter" THEN <<"id_str", "id">>
  ELSE IF platform = "linkedin" THEN <<"ShareLink", "Share Link">>
  ELSE <<>>

FallbackText(r) ==
  LET v == FirstPresent(FieldsOf(r), ContentKeys(r), <<>>)
  IN IF platform = "instagram" THEN fix_encoding(v) ELSE v

\* the records whose text is not blank, in order
RECURSIVE KeptRecords(_)
KeptRecords(records) ==
  IF records = <<>> THEN <<>>
  ELSE (IF IsBlank(FallbackText(Head(records))) THEN <<>> ELSE <<Head(records)>>)
         \o KeptRecords(Tail(records))

\* an extractor whose text and id come from alternative keys has returned
FallbackExtracted ==
  /\ pc = "extract_likes" \/ (platform = "linkedin" /\ pc = "extract_comments")
  /\ probe.who \in {"extract_tweets", "extract_shares", "extract_comments"}
  /\ probe.read # "none"

\* C11: the text and the id of every item emitted by the Twitter tweets,
\* LinkedIn shares and Instagram comments extractors are the values of the
\* first candidate key their record has, whatever later candidate keys it
\* has, and the default when it has none; the Instagram comment list is
\* taken from the first list key the file has.
C11_FirstPresentKey ==
  FallbackExtracted =>
    LET items == comps[VarOf(probe.who)]
        kept == KeptRecords(RecordsOf(probe.who))
    IN /\ Len(items) = Len(kept)
       /\ \A i \in DOMAIN items :
            /\ items[i].content = FallbackText(kept[i])
            /\ items[i].id = FirstPresent(kept[i], IdKeys, "")

\* a record with both candidate keys, holding different values, was emitted
C11_Witness ==
  /\ FallbackExtracted
  /\ \E i \in DOMAIN RecordsOf(probe.who) :
       LET r == RecordsOf(probe.who)[i]
           keys == ContentKeys(r)
       IN /\ Len(keys) = 2
          /\ keys[1] \in DOMAIN r /\ keys[2] \in DOMAIN r
          /\ r[keys[1]] # r[keys[2]]
          /\ ~IsBlank(FallbackText(r))
  /\ comps[VarOf(probe.who)] # <<>>

(***************************************************************************)
(* Instagram timestamps                                                    *)
(***************************************************************************)
\* an Instagram extractor that loaded its file has returned
IgExtracted ==
  /\ platform = "instagram"
  /\ pc \in {"extract_comments", "extract_likes", "extract_profile"}
  /\ probe.read # "none"

\* the sub-items of the posts whose repaired title is not blank, in order
RECURSIVE KeptMedia(_)
KeptMedia(media_list) ==
  IF media_list = <<>> THEN <<>>
  ELSE (IF IsBlank(fix_encoding(Get(Head(media_list), "title", <<>>))) THEN <<>>
        ELSE <<Head(media_list)>>)
         \o KeptMedia(Tail(media_list))

\* the source records behind the items of the extractor, in order
IgEmittedRecords(who) ==
  IF who = "extract_posts" THEN KeptMedia(RecordsOf(who))
  ELSE IF who = "extract_comments" THEN KeptRecords(RecordsOf(who))
  ELSE RecordsOf(who)

\* where a record carries its epoch seconds
IgTimestampKey(who) ==
  IF who = "extract_posts" THEN "creation_timestamp" ELSE "timestamp"

IgTimestampSource(who, r) ==
  IF who = "extract_posts" THEN r ELSE FieldsOf(r)

\* C13 (as stated): an item of the Instagram posts, comments and likes
\* extractors has a null timestamp exactly when its record carries no
\* epoch-seconds value; a record that carries one, 0 included, is emitted
\* with the ISO-8601 conversion of that value.
C13_TimestampNullIffAbsent ==
  IgExtracted =>
    LET items == comps[VarOf(probe.who)]
        recs == IgEmittedRecords(probe.who)
        key == IgTimestampKey(probe.who)
    IN /\ Len(items) = Len(recs)
       /\ \A i \in DOMAIN items :
            LET src == IgTimestampSource(probe.who, recs[i])
            IN items[i].timestamp =
                 IF key \in DOMAIN src THEN parse_timestamp(src[key]) ELSE NoneTs

(***************************************************************************)
(* The raw format readers applied alone                                    *)
(***************************************************************************)
\* what a path of each kind may hold when it exists
ReaderFiles(kind) ==
  IF kind = "json" THEN JsonContents(IgLikeSamples, MaxRecs, {"likes_media_likes"})
  ELSE IF kind = "csv" THEN ShareContents
  ELSE JsContents(TweetSamples, MaxRecs)

InitReaders ==
  /\ enc = EncIdle
  /\ dt = DtIdle
  /\ MainIdle
  /\ \E kind \in {"json", "csv", "js"}, isThere \in BOOLEAN :
       \E content \in IF isThere THEN ReaderFiles(kind) ELSE {NoFile} :
         rd = [kind |-> kind, isThere |-> isThere, applied |-> FALSE,
               content |-> content, out |-> Returned(<<>>)]

LoadJsonFile ==
  /\ rd.kind = "json" /\ ~rd.applied
  /\ rd' = [rd EXCEPT !.applied = TRUE,
                       !.out = load_json_file(rd.isThere, rd.content)]
  /\ UNCHANGED <<enc, dt, mainVars>>

ReadCsvFile ==
  /\ rd.kind = "csv" /\ ~rd.applied
  /\ rd' = [rd EXCEPT !.applied = TRUE,
                       !.out = read_csv_file(rd.isThere, rd.content)]
  /\ UNCHANGED <<enc, dt, mainVars>>

ParseJsFile ==
  /\ rd.kind = "js" /\ ~rd.applied
  /\ rd' = [rd EXCEPT !.applied = TRUE,
                       !.out = parse_js_file(rd.isThere, rd.content)]
  /\ UNCHANGED <<enc, dt, mainVars>>

NextReaders == LoadJsonFile \/ ReadCsvFile \/ ParseJsFile

SpecReaders == InitReaders /\ [][NextReaders]_vars

\* a reader was applied to a path that does not exist
ReadMissing == rd.applied /\ ~rd.isThere

ReturnedEmpty ==
  /\ rd.out.raised = "none"
  /\ IF rd.kind = "json" THEN rd.out.value = NoFile ELSE rd.out.value = <<>>

\* C12 (as stated): each of the three readers, applied to a path that does
\* not exist, returns an empty result and does not fail.
C12_ReadersTolerateMissing == ReadMissing => ReturnedEmpty

\* C12 (amended): applied to a path that does not exist, load_json_file
\* and read_csv_file return an empty list, and parse_js_file raises
\* FileNotFoundError.
C12_MissingPathByReader ==
  ReadMissing =>
    IF rd.kind = "js" THEN rd.out.raised = "FileNotFoundError"
    ELSE ReturnedEmpty

C12_Witness ==
  /\ ReadMissing
  /\ rd.kind = "json"
  /\ rd.out = Returned(NoFile)

====
